---- MODULE Spec2Model ----
(***************************************************************************)
(* A model of ValShaped/rover (crate "overmount"):                         *)
(*   - src/btrfs/format.rs : the mkfs.btrfs option builder                 *)
(*     (FormatterOptions), its argument compiler (to_args) and the         *)
(*     process invoker (Formatter::format);                                *)
(*   - src/config.rs       : the layered configuration (Config and its     *)
(*     five sub-records) and its codec (Config::save / load /              *)
(*     to_string_pretty).                                                  *)
(*                                                                         *)
(* Rust strings are TLA+ strings; every string the model feeds in is       *)
(* ASCII, so that str::len (a length in bytes) is Len.  Vec<T> is a        *)
(* sequence, Result<T, E> is a record with an "ok" field.                  *)
(***************************************************************************)
EXTENDS Integers, Sequences, FiniteSets, TLC

VARIABLES
    opts,       \* the caller's FormatterOptions value, or Moved once it is gone
    last,       \* the most recent call on the formatter API and its result
    formatter,  \* the caller's Formatter value, or NoFormatter
    spawned,    \* argument lists of the mkfs.btrfs processes started so far
    exited,     \* what each of those processes left: exit status, stdout, stderr
    output,     \* what the most recent Formatter::format returned
    opts2,      \* a second builder chain (order-independence runs)
    pending,    \* the setter calls the two chains still owe each other
    config,     \* the caller's Config value
    edits,      \* how many Config setters were called on it
    fs,         \* the file system: path -> NoFile, Denied or File(content)
    io          \* the most recent Config call (from, save, load, ...) and its result

vars ==
    <<opts, last, formatter, spawned, exited, output, opts2, pending, config, edits,
      fs, io>>

fmtVars == <<opts, last, formatter, spawned, exited, output>>
ordVars == <<opts2, pending>>
cfgVars == <<config, edits, io>>

----------------------------------------------------------------------------
(* Result<T, E> *)

Ok(v) == [ok |-> TRUE, val |-> v]
Err(e) == [ok |-> FALSE, err |-> e]

----------------------------------------------------------------------------
(* Text helpers: what format!("{}") does for the types involved.           *)

Digit(d) ==
    CASE d = 0 -> "0" [] d = 1 -> "1" [] d = 2 -> "2" [] d = 3 -> "3"
      [] d = 4 -> "4" [] d = 5 -> "5" [] d = 6 -> "6" [] d = 7 -> "7"
      [] d = 8 -> "8" [] d = 9 -> "9"

RECURSIVE Decimal(_)
\* Display for u64 / usize: decimal, no sign, no padding.
Decimal(n) == IF n < 10 THEN Digit(n) ELSE Decimal(n \div 10) \o Digit(n % 10)

RECURSIVE Join(_, _)
\* [String]::join(sep)
Join(list, sep) ==
    IF list = <<>> THEN ""
    ELSE IF Len(list) = 1 THEN list[1]
    ELSE list[1] \o sep \o Join(Tail(list), sep)

RECURSIVE Repeat(_, _)
\* vec![b; n] turned into a String
Repeat(s, n) ==
    IF n = 0 THEN ""
    ELSE LET half == Repeat(s, n \div 2)
         IN  IF n % 2 = 0 THEN half \o half ELSE half \o half \o s

RECURSIVE count_ones(_)
\* usize::count_ones: the number of 1 bits
count_ones(n) == IF n = 0 THEN 0 ELSE (n % 2) + count_ones(n \div 2)

\* usize::is_power_of_two: exactly one bit set
is_power_of_two(n) == count_ones(n) = 1

----------------------------------------------------------------------------
(* enum DataProfile, enum ChecksumAlgorithm and their Display              *)

DataProfile ==
    {"Raid0", "Raid1", "Raid1c3", "Raid1c4", "Raid5", "Raid6", "Raid10",
     "Single", "Dup"}

DataProfile_fmt(p) ==
    CASE p = "Raid0" -> "raid0"
      [] p = "Raid1" -> "raid1"
      [] p = "Raid1c3" -> "raid1c3"
      [] p = "Raid1c4" -> "raid1c4"
      [] p = "Raid5" -> "raid5"
      [] p = "Raid6" -> "raid6"
      [] p = "Raid10" -> "raid10"
      [] p = "Single" -> "single"
      [] p = "Dup" -> "dup"

ChecksumAlgorithm == {"CRC32C", "XXHash", "SHA256", "Blake2"}

ChecksumAlgorithm_fmt(a) ==
    CASE a = "CRC32C" -> "crc32c"
      [] a = "XXHash" -> "xxhash"
      [] a = "SHA256" -> "sha256"
      [] a = "Blake2" -> "blake2"

----------------------------------------------------------------------------
(* enum FormatOpt and its Display                                          *)

None == [tag |-> "None"]
Algo(a) == [tag |-> "Algo", arg |-> a]
Bool(b) == [tag |-> "Bool", arg |-> b]
Data(d) == [tag |-> "Data", arg |-> d]
List(l) == [tag |-> "List", arg |-> l]
Path(p) == [tag |-> "Path", arg |-> p]
Text(t) == [tag |-> "Text", arg |-> t]
Uint(n) == [tag |-> "Uint", arg |-> n]
Uuid(u) == [tag |-> "Uuid", arg |-> u]

FormatOpt_fmt(opt) ==
    CASE opt.tag = "None" -> "None"
      [] opt.tag = "Algo" -> ChecksumAlgorithm_fmt(opt.arg)
      [] opt.tag = "Bool" -> (IF opt.arg THEN "true" ELSE "false")
      [] opt.tag = "Data" -> DataProfile_fmt(opt.arg)
      [] opt.tag = "List" -> Join(opt.arg, ",")
      [] opt.tag = "Path" -> opt.arg
      [] opt.tag = "Text" -> opt.arg
      [] opt.tag = "Uint" -> Decimal(opt.arg)
      [] opt.tag = "Uuid" -> opt.arg

----------------------------------------------------------------------------
(* struct FormatterOptions and its setters                                 *)

\* The fields of FormatterOptions, in declaration order.
Slots ==
    <<"byte_count", "checksum", "data", "features", "force", "label",
      "metadata", "mixed", "no_discard", "nodesize", "rootdir",
      "runtime_features", "sectorsize", "shrink", "uuid">>

SlotNames == {Slots[i] : i \in 1..Len(Slots)}

\* #[derive(Default)]: every field is FormatOpt::None.
FormatterOptions_default == [s \in SlotNames |-> None]

\* Formatter::options()
Formatter_options == FormatterOptions_default

\* (A variant that keeps the first value: a later call changes nothing.)
byte_count_keeps_first(self, n) ==
    Ok(IF self.byte_count.tag = "None"
       THEN [self EXCEPT !.byte_count = Uint(n)]
       ELSE self)

byte_count(self, n) == Ok([self EXCEPT !.byte_count = Uint(n)])

checksum(self, a) == Ok([self EXCEPT !.checksum = Algo(a)])

\* data writing the field of its neighbour metadata (a copy-and-paste slip).
data_wrong_slot(self, d) == Ok([self EXCEPT !.metadata = Data(d)])

data(self, d) == Ok([self EXCEPT !.data = Data(d)])

features(self, l) == Ok([self EXCEPT !.features = List(l)])

force(self) == Ok([self EXCEPT !.force = Bool(TRUE)])

label(self, s) == Ok([self EXCEPT !.label = Text(s)])

metadata(self, d) == Ok([self EXCEPT !.metadata = Data(d)])

mixed(self) == Ok([self EXCEPT !.mixed = Bool(TRUE)])

no_discard(self) == Ok([self EXCEPT !.no_discard = Bool(TRUE)])

AssignmentError(field, value, why) ==
    [kind |-> "AssignmentError", field |-> field, value |-> value, why |-> why]

\* nodesize with the bound read as "less than 2^14" (the wording of its doc
\* comment) instead of `<= 16384`.
nodesize_lt(self, n) ==
    IF is_power_of_two(n) /\ n < 16384
    THEN Ok([self EXCEPT !.nodesize = Uint(n)])
    ELSE Err(AssignmentError("node_size", Decimal(n),
                             "Must be a power of 2, and <= 16384"))

nodesize(self, n) ==
    IF is_power_of_two(n) /\ n <= 16384
    THEN Ok([self EXCEPT !.nodesize = Uint(n)])
    ELSE Err(AssignmentError("node_size", Decimal(n),
                             "Must be a power of 2, and <= 16384"))

rootdir(self, p) == Ok([self EXCEPT !.rootdir = Path(p)])

runtime_features(self, l) == Ok([self EXCEPT !.runtime_features = List(l)])

\* (A variant that writes the field of nodesize, the other size.)
sectorsize_into_nodesize(self, n) == Ok([self EXCEPT !.nodesize = Uint(n)])

sectorsize(self, n) == Ok([self EXCEPT !.sectorsize = Uint(n)])

\* (A variant that toggles: a second call takes the flag away again.)
shrink_toggles(self) ==
    Ok([self EXCEPT !.shrink = IF @.tag = "Bool" THEN None ELSE Bool(TRUE)])

shrink(self) == Ok([self EXCEPT !.shrink = Bool(TRUE)])

uuid(self, u) == Ok([self EXCEPT !.uuid = Uuid(u)])

----------------------------------------------------------------------------
(* FormatterOptions::to_args                                               *)

\* push_arg without its Bool arm: a flag is formatted like any other value.
push_arg_no_bool(args, arg, opt) ==
    CASE opt.tag = "None" -> args
      [] OTHER -> Append(args, "--" \o arg \o "=" \o FormatOpt_fmt(opt))

\* The closure push_arg of to_args: pushes nothing for None, "--arg" for a
\* Bool (whatever its payload), "--arg=<Display of opt>" for anything else.
push_arg(args, arg, opt) ==
    CASE opt.tag = "None" -> args
      [] opt.tag = "Bool" -> Append(args, "--" \o arg)
      [] OTHER -> Append(args, "--" \o arg \o "=" \o FormatOpt_fmt(opt))

\* to_args with the label and metadata statements in each other's place.
to_args_visits_swapped ==
    << [slot |-> "byte_count",       variant |-> "Uint", arg |-> "byte-count"],
       [slot |-> "checksum",         variant |-> "Algo", arg |-> "checksum"],
       [slot |-> "data",             variant |-> "Data", arg |-> "data"],
       [slot |-> "features",         variant |-> "List", arg |-> "features"],
       [slot |-> "force",            variant |-> "Bool", arg |-> "force"],
       [slot |-> "metadata",         variant |-> "Data", arg |-> "metadata"],
       [slot |-> "label",            variant |-> "Text", arg |-> "label"],
       [slot |-> "mixed",            variant |-> "Bool", arg |-> "mixed"],
       [slot |-> "no_discard",       variant |-> "Bool", arg |-> "nodiscard"],
       [slot |-> "nodesize",         variant |-> "Uint", arg |-> "nodesize"],
       [slot |-> "rootdir",          variant |-> "Path", arg |-> "rootdir"],
       [slot |-> "runtime_features", variant |-> "List", arg |-> "runtime-features"],
       [slot |-> "sectorsize",       variant |-> "Uint", arg |-> "sectorsize"],
       [slot |-> "shrink",           variant |-> "Bool", arg |-> "shrink"],
       [slot |-> "uuid",             variant |-> "Uuid", arg |-> "uuid"] >>

\* The fifteen `if let Variant(_) = self.slot { push_arg(name, &self.slot) }`
\* statements of to_args, in program order.
to_args_visits ==
    << [slot |-> "byte_count",       variant |-> "Uint", arg |-> "byte-count"],
       [slot |-> "checksum",         variant |-> "Algo", arg |-> "checksum"],
       [slot |-> "data",             variant |-> "Data", arg |-> "data"],
       [slot |-> "features",         variant |-> "List", arg |-> "features"],
       [slot |-> "force",            variant |-> "Bool", arg |-> "force"],
       [slot |-> "label",            variant |-> "Text", arg |-> "label"],
       [slot |-> "metadata",         variant |-> "Data", arg |-> "metadata"],
       [slot |-> "mixed",            variant |-> "Bool", arg |-> "mixed"],
       [slot |-> "no_discard",       variant |-> "Bool", arg |-> "nodiscard"],
       [slot |-> "nodesize",         variant |-> "Uint", arg |-> "nodesize"],
       [slot |-> "rootdir",          variant |-> "Path", arg |-> "rootdir"],
       [slot |-> "runtime_features", variant |-> "List", arg |-> "runtime-features"],
       [slot |-> "sectorsize",       variant |-> "Uint", arg |-> "sectorsize"],
       [slot |-> "shrink",           variant |-> "Bool", arg |-> "shrink"],
       [slot |-> "uuid",             variant |-> "Uuid", arg |-> "uuid"] >>

RECURSIVE to_args_from(_, _, _)
\* to_args from its i-th statement on, args being what was pushed so far.
to_args_from(self, i, args) ==
    IF i > Len(to_args_visits) THEN args
    ELSE LET v == to_args_visits[i]
             pushed == IF self[v.slot].tag = v.variant
                       THEN push_arg(args, v.arg, self[v.slot])
                       ELSE args
         IN  to_args_from(self, i + 1, pushed)

to_args(self) == to_args_from(self, 1, <<>>)

\* FormatterOptions::finalize(&self) -> Formatter
\* (A variant that bakes no argument at all.)
finalize_no_args(self) == [args |-> <<>>]

finalize(self) == [args |-> to_args(self)]

----------------------------------------------------------------------------
(* The caller's values                                                     *)

\* A FormatterOptions the caller owns, and one that was moved away or dropped.
Owned(o) == [live |-> TRUE, o |-> o]
Moved == [live |-> FALSE]

Built(f) == [live |-> TRUE, f |-> f]
NoFormatter == [live |-> FALSE]

NoError == [kind |-> "None"]
NoOutput == [called |-> FALSE]

Call(op, arg, r) ==
    [op |-> op, arg |-> arg, ok |-> r.ok, err |-> IF r.ok THEN NoError ELSE r.err]

\* The slots of o that are not FormatOpt::None.
Present(o) == {s \in SlotNames : o[s].tag # "None"}

----------------------------------------------------------------------------
(* The file system, as far as the program looks at it                      *)

NoFile == [kind |-> "absent"]
\* A path whose metadata cannot be read and that cannot be opened (EACCES).
Denied == [kind |-> "denied"]
\* A file is a sequence of chunks: raw text, a newline, or a document.
File(content) == [kind |-> "file", content |-> content]
Raw(text) == [chunk |-> "raw", text |-> text]
NL == [chunk |-> "newline"]

IoError(kind) == [kind |-> "IoError", io |-> kind]

\* Path::try_exists: Ok(true) for an existing path, Ok(false) for a missing
\* one, Err when the existence cannot be determined.
try_exists(files, path) ==
    CASE files[path].kind = "file" -> Ok(TRUE)
      [] files[path].kind = "absent" -> Ok(FALSE)
      [] files[path].kind = "denied" -> Err(IoError("PermissionDenied"))

DevicePaths == {"./test.btrfs", "./missing.btrfs", "/root/locked.btrfs"}
ConfigPaths == {"rover.conf", "old.conf", "/root/locked.conf"}

InitFs ==
    [p \in DevicePaths \cup ConfigPaths |->
        CASE p = "./test.btrfs" -> File(<<Raw("512M of zeroes")>>)
          [] p = "old.conf" -> File(<<Raw("stale"), NL>>)
          [] p \in {"/root/locked.btrfs", "/root/locked.conf"} -> Denied
          [] OTHER -> NoFile]

----------------------------------------------------------------------------
(* Bounds and inputs                                                       *)

\* A builder of Spec holds at most this many present slots.
MaxPresent == 2
\* Node sizes tried: 2^0 .. 2^MaxNodeExp and some that are no power of two.
MaxNodeExp == 15
\* mkfs.btrfs runs per behaviour.
MaxRuns == 1

RECURSIVE Pow2(_)
Pow2(k) == IF k = 0 THEN 1 ELSE 2 * Pow2(k - 1)

\* What mkfs.btrfs can do once started: its exit status and what it wrote.
Outputs ==
    { [status |-> 0, stdout |-> "btrfs-progs: done", stderr |-> ""],
      [status |-> 1, stdout |-> "", stderr |-> "ERROR: unable to open device"] }

\* Command::output(): the process ran and left an Output, or it could not be
\* started at all (no mkfs.btrfs on PATH).
SpawnOutcomes == {Ok(o) : o \in Outputs} \cup {Err(IoError("NotFound"))}

\* The arguments a caller of the library may pass: every enum value, every
\* power of two up to 2^MaxNodeExp, labels around the 255-byte limit.
FullInputs ==
    [ byte_count       |-> {0, 536870912},
      checksum         |-> ChecksumAlgorithm,
      data             |-> DataProfile,
      features         |-> {<<>>, <<"mixed-bg">>, <<"mixed-bg", "^extref">>},
      label            |-> {"", "label-label", Repeat("A", 255), Repeat("A", 256)},
      metadata         |-> DataProfile,
      nodesize         |-> {0, 3, 12288, 16383, 16385}
                              \cup {Pow2(k) : k \in 0..MaxNodeExp},
      rootdir          |-> {"./testdir", "/"},
      runtime_features |-> {<<"quota">>, <<"quota", "free-space-tree">>},
      sectorsize       |-> {0, 4096},
      uuid             |-> {"73e1b7e2-a3a8-49c2-b258-06f01a889bba", "not-a-uuid"},
      device           |-> DevicePaths,
      present          |-> MaxPresent ]

\* A sample of them, for the runs that go on to finalize and format.
ApiInputs ==
    [ byte_count       |-> {0, 536870912},
      checksum         |-> {"CRC32C", "Blake2"},
      data             |-> {"Dup", "Raid1c3"},
      features         |-> {<<>>, <<"mixed-bg", "^extref">>},
      label            |-> {"", "label-label", Repeat("A", 256)},
      metadata         |-> {"Dup", "Single"},
      nodesize         |-> {0, 3, 4096, 16384, 32768},
      rootdir          |-> {"./testdir"},
      runtime_features |-> {<<"quota", "free-space-tree">>},
      sectorsize       |-> {4096},
      uuid             |-> {"73e1b7e2-a3a8-49c2-b258-06f01a889bba"},
      device           |-> DevicePaths,
      present          |-> MaxPresent ]

\* The build chain of create_btrfs_image (src/main.rs): rootdir, label,
\* shrink, mixed, force, finalize, format; and nodesize, the setter that can
\* refuse its argument, with node sizes it accepts and node sizes it refuses.
\* The label is the caller's: one that is a good volume label, and none.
ChainInputs ==
    [ label    |-> {"label-label", ""},
      nodesize |-> {3, 4096, 32768},
      rootdir  |-> {"./testdir"},
      device   |-> DevicePaths,
      present  |-> Len(Slots) ]

\* The arguments of the callers in the repository (src/main.rs
\* try_example_code, the example of src/btrfs/format.rs, src/tests/mod.rs).
ExampleInputs ==
    [ byte_count       |-> {536870912},
      checksum         |-> {"CRC32C"},
      data             |-> {"Dup"},
      features         |-> {<<"mixed-bg">>},
      label            |-> {"label-label"},
      metadata         |-> {"Dup"},
      nodesize         |-> {4096},
      rootdir          |-> {"./testdir"},
      runtime_features |-> {<<"quota">>},
      sectorsize       |-> {4096},
      uuid             |-> {"73e1b7e2-a3a8-49c2-b258-06f01a889bba"},
      device           |-> {"./test.btrfs"},
      present          |-> Len(Slots) ]

----------------------------------------------------------------------------
(* The formatter API, one action per call                                  *)

\* A setter may be called on a live builder (within the bound on slots).
CanSet(in, slot) ==
    /\ opts.live
    /\ IF opts.o[slot].tag = "None"
       THEN Cardinality(Present(opts.o)) < in.present
       ELSE TRUE

\* A setter takes self by value: on Ok the caller holds the returned value,
\* on Err (`?`, unwrap, expect) the builder is gone.
SetterCall(op, arg, r) ==
    /\ last' = Call(op, arg, r)
    /\ opts' = IF r.ok THEN Owned(r.val) ELSE Moved
    /\ UNCHANGED <<formatter, spawned, exited, output, ordVars, cfgVars, fs>>

Call_byte_count(in) ==
    /\ CanSet(in, "byte_count")
    /\ \E n \in in.byte_count : SetterCall("byte_count", n, byte_count(opts.o, n))

Call_checksum(in) ==
    /\ CanSet(in, "checksum")
    /\ \E a \in in.checksum : SetterCall("checksum", a, checksum(opts.o, a))

Call_data(in) ==
    /\ CanSet(in, "data")
    /\ \E d \in in.data : SetterCall("data", d, data(opts.o, d))

Call_features(in) ==
    /\ CanSet(in, "features")
    /\ \E l \in in.features : SetterCall("features", l, features(opts.o, l))

Call_force(in) ==
    /\ CanSet(in, "force")
    /\ SetterCall("force", "-", force(opts.o))

Call_label(in) ==
    /\ CanSet(in, "label")
    /\ \E s \in in.label : SetterCall("label", s, label(opts.o, s))

Call_metadata(in) ==
    /\ CanSet(in, "metadata")
    /\ \E d \in in.metadata : SetterCall("metadata", d, metadata(opts.o, d))

Call_mixed(in) ==
    /\ CanSet(in, "mixed")
    /\ SetterCall("mixed", "-", mixed(opts.o))

Call_no_discard(in) ==
    /\ CanSet(in, "no_discard")
    /\ SetterCall("no_discard", "-", no_discard(opts.o))

Call_nodesize(in) ==
    /\ CanSet(in, "nodesize")
    /\ \E n \in in.nodesize : SetterCall("nodesize", n, nodesize(opts.o, n))

Call_rootdir(in) ==
    /\ CanSet(in, "rootdir")
    /\ \E p \in in.rootdir : SetterCall("rootdir", p, rootdir(opts.o, p))

Call_runtime_features(in) ==
    /\ CanSet(in, "runtime_features")
    /\ \E l \in in.runtime_features :
          SetterCall("runtime_features", l, runtime_features(opts.o, l))

Call_sectorsize(in) ==
    /\ CanSet(in, "sectorsize")
    /\ \E n \in in.sectorsize : SetterCall("sectorsize", n, sectorsize(opts.o, n))

Call_shrink(in) ==
    /\ CanSet(in, "shrink")
    /\ SetterCall("shrink", "-", shrink(opts.o))

Call_uuid(in) ==
    /\ CanSet(in, "uuid")
    /\ \E u \in in.uuid : SetterCall("uuid", u, uuid(opts.o, u))

\* dump_args(self) -> Self: prints the compiled arguments, returns self.
Call_dump_args ==
    /\ opts.live
    /\ last' = [op |-> "dump_args", arg |-> to_args(opts.o), ok |-> TRUE,
                err |-> NoError]
    /\ UNCHANGED <<opts, formatter, spawned, exited, output, ordVars, cfgVars, fs>>

\* (A finalize that drains the builder it is called on, leaving the default.)
Call_finalize_draining ==
    /\ opts.live
    /\ formatter' = Built(finalize(opts.o))
    /\ opts' = Owned(Formatter_options)
    /\ last' = [op |-> "finalize", arg |-> "-", ok |-> TRUE, err |-> NoError]
    /\ UNCHANGED <<spawned, exited, output, ordVars, cfgVars, fs>>

\* `let f = options.finalize();` on a builder the caller keeps: finalize
\* borrows (&self), so the builder stays usable.
Call_finalize ==
    /\ opts.live
    /\ formatter' = Built(finalize(opts.o))
    /\ last' = [op |-> "finalize", arg |-> "-", ok |-> TRUE, err |-> NoError]
    /\ UNCHANGED <<opts, spawned, exited, output, ordVars, cfgVars, fs>>

\* `Formatter::options()....finalize()` as one expression: the builder is a
\* temporary, dropped at the end of the statement.
Chain_finalize ==
    /\ opts.live
    /\ formatter' = Built(finalize(opts.o))
    /\ opts' = Moved
    /\ last' = [op |-> "finalize", arg |-> "-", ok |-> TRUE, err |-> NoError]
    /\ UNCHANGED <<spawned, exited, output, ordVars, cfgVars, fs>>

\* Formatter::format(mut self, device): what it returns and the argument list
\* of the process it starts (NoRun when it starts none).
NoRun == [ran |-> FALSE]
Ran(args) == [ran |-> TRUE, args |-> args]

\* (A variant that reads the exit status: a non-zero status becomes an error.)
Formatter_format_checks_status(self, files, device, outcome) ==
    LET probe == try_exists(files, device)
        args == Append(self.args, device)
    IN  IF ~probe.ok THEN [ret |-> Err(probe.err), run |-> NoRun]
        ELSE IF ~outcome.ok THEN [ret |-> outcome, run |-> NoRun]
        ELSE IF outcome.val.status # 0
             THEN [ret |-> Err(IoError("Other")), run |-> Ran(args)]
             ELSE [ret |-> outcome, run |-> Ran(args)]

Formatter_format(self, files, device, outcome) ==
    LET probe == try_exists(files, device)
        args == Append(self.args, device)
    IN  IF ~probe.ok THEN [ret |-> Err(probe.err), run |-> NoRun]
        ELSE IF ~outcome.ok THEN [ret |-> outcome, run |-> NoRun]
        ELSE [ret |-> outcome, run |-> Ran(args)]

Call_format(in) ==
    /\ formatter.live
    /\ Len(spawned) < MaxRuns
    /\ \E device \in in.device, outcome \in SpawnOutcomes :
         LET r == Formatter_format(formatter.f, fs, device, outcome)
         IN  /\ output' = r.ret
             /\ spawned' = IF r.run.ran THEN Append(spawned, r.run.args)
                           ELSE spawned
             /\ exited' = IF r.run.ran THEN Append(exited, outcome.val)
                          ELSE exited
             /\ last' = [op |-> "format", arg |-> device, ok |-> r.ret.ok,
                         err |-> IF r.ret.ok THEN NoError ELSE r.ret.err]
    /\ formatter' = NoFormatter
    /\ UNCHANGED <<opts, ordVars, cfgVars, fs>>

----------------------------------------------------------------------------
(* Paths (std::path), as far as config.rs uses them                        *)

\* A path may hold bytes that are not valid UTF-8.  The model's path inputs
\* have such a byte, if any, in front: 0xFF, written <FF>.  Path::to_str is
\* None for such a path.
has_invalid_utf8(p) == Len(p) >= 4 /\ SubSeq(p, 1, 4) = "<FF>"

to_str(p) == IF has_invalid_utf8(p) THEN [some |-> FALSE] ELSE [some |-> TRUE, s |-> p]

is_absolute(p) == Len(p) >= 1 /\ SubSeq(p, 1, 1) = "/"

\* Path::join (PathBuf::push): an absolute `q` replaces `p`; otherwise `q` is
\* appended, after a separator unless `p` is empty or already ends with one.
path_join(p, q) ==
    IF is_absolute(q) THEN q
    ELSE IF p = "" THEN q
    ELSE IF SubSeq(p, Len(p), Len(p)) = "/" THEN p \o q
    ELSE p \o "/" \o q

----------------------------------------------------------------------------
(* struct Common, Service, Overlay, Disk, Configurator, Config             *)

Common_default ==
    LET path == ""
    IN  [ base_directory |-> path_join(path, "/opt/rwfus"),
          directories |-> << path_join(path, "/usr"),
                             path_join(path, "/etc/pacman.d"),
                             path_join(path, "/var/lib/pacman"),
                             path_join(path, "/var/cache/pacman") >> ]

Common_base_directory(self, path) == [self EXCEPT !.base_directory = path]
Common_directories(self, directories) == [self EXCEPT !.directories = directories]

Common_from(value) == Common_base_directory(Common_default, value)

Service_default ==
    [ mask_units |-> <<"pacman-cleanup.service">>,
      restart_units |-> <<"usr-local.mount", "polkit.service">>,
      stop_units |-> <<"var-cache-pacman.mount">> ]

Service_from(value) == Service_default

Service_mask_units(self, services) == [self EXCEPT !.mask_units = services]
Service_restart_units(self, services) == [self EXCEPT !.restart_units = services]
Service_stop_units(self, services) == [self EXCEPT !.stop_units = services]

\* #[derive(Default)]: PathBuf::default() is the empty path.
Overlay_default == [overlay_directory |-> ""]

Overlay_overlay_directory(self, path) == [self EXCEPT !.overlay_directory = path]

\* Overlay::from that forgets to rebase and returns the default.
Overlay_from_default(value) == Overlay_default

Overlay_from(value) ==
    Overlay_overlay_directory(Overlay_default, path_join(value, "mount"))

Disk_default ==
    LET path == ""
    IN  [ disk_image_path |-> path_join(path, "/opt/rwfus/rwfus.btrfs"),
          disk_image_size |-> "8G",
          mount_directory |-> path_join(path, "/opt/rwfus/mount"),
          mount_options |-> <<"loop", "compress">> ]

Disk_disk_image_path(self, path) == [self EXCEPT !.disk_image_path = path]
Disk_disk_image_size(self, size) == [self EXCEPT !.disk_image_size = size]
Disk_mount_directory(self, path) == [self EXCEPT !.mount_directory = path]
Disk_mount_options(self, options) == [self EXCEPT !.mount_options = options]

Disk_from(value) ==
    Disk_mount_directory(
        Disk_disk_image_path(Disk_default, path_join(value, "rwfus.btrfs")),
        path_join(value, "mount"))

Configurator_default ==
    LET path == ""
    IN  [ install_directory |-> path_join(path, "/home/.steamos/offload/usr/local/bin"),
          logfile |-> path_join(path, "/var/log/rwfus.log"),
          service_directory |-> path_join(path, "/opt/rwfus/service"),
          systemd_directory |-> path_join(path, "/etc/systemd/system") ]

Configurator_install_directory(self, path) == [self EXCEPT !.install_directory = path]
Configurator_logfile(self, path) == [self EXCEPT !.logfile = path]
Configurator_service_directory(self, path) == [self EXCEPT !.service_directory = path]
Configurator_systemd_directory(self, path) == [self EXCEPT !.systemd_directory = path]

Configurator_from(value) ==
    Configurator_service_directory(
        Configurator_install_directory(Configurator_default,
                                       path_join(value, "rwfus.btrfs")),
        path_join(value, "service"))

Config_from(value) ==
    [ common |-> Common_from(value),
      configurator |-> Configurator_from(value),
      disk |-> Disk_from(value),
      overlay |-> Overlay_from(value),
      service |-> Service_from(value) ]

Config_default ==
    [ common |-> Common_default,
      configurator |-> Configurator_default,
      disk |-> Disk_default,
      overlay |-> Overlay_default,
      service |-> Service_default ]

----------------------------------------------------------------------------
(* mod io: ConfigFormat, Config::load, Config::save, to_string_pretty      *)

\* enum ConfigFormat, built with the features json, ron, toml and yaml.
ConfigFormat == {"Dummy", "Json", "Ron", "Toml", "Yaml"}

\* The variants that have a serde backend behind them.
Backends == {"Json", "Ron", "Toml", "Yaml"}

\* A serialized Config: the format it is written in and the data it spells.
Doc(format, tree) == [chunk |-> "doc", format |-> format, tree |-> tree]

\* Every PathBuf field of a Config.
ConfigPathsOf(self) ==
    { self.common.base_directory,
      self.configurator.install_directory, self.configurator.logfile,
      self.configurator.service_directory, self.configurator.systemd_directory,
      self.disk.disk_image_path, self.disk.mount_directory,
      self.overlay.overlay_directory }
    \cup { self.common.directories[i] : i \in DOMAIN self.common.directories }

\* #[derive(Serialize)]: structs become maps keyed by field name, Vec a
\* sequence, String a string, PathBuf its to_str() or an error if it has none.
Config_serialize(self) ==
    IF \E p \in ConfigPathsOf(self) : ~to_str(p).some
    THEN Err("path contains invalid UTF-8 characters")
    ELSE Ok([ common |->
                [ base_directory |-> to_str(self.common.base_directory).s,
                  directories |-> [i \in DOMAIN self.common.directories |->
                                      to_str(self.common.directories[i]).s] ],
              configurator |->
                [ install_directory |-> to_str(self.configurator.install_directory).s,
                  service_directory |-> to_str(self.configurator.service_directory).s,
                  systemd_directory |-> to_str(self.configurator.systemd_directory).s,
                  logfile |-> to_str(self.configurator.logfile).s ],
              disk |->
                [ disk_image_path |-> to_str(self.disk.disk_image_path).s,
                  disk_image_size |-> self.disk.disk_image_size,
                  mount_directory |-> to_str(self.disk.mount_directory).s,
                  mount_options |-> self.disk.mount_options ],
              overlay |->
                [ overlay_directory |-> to_str(self.overlay.overlay_directory).s ],
              service |->
                [ mask_units |-> self.service.mask_units,
                  restart_units |-> self.service.restart_units,
                  stop_units |-> self.service.stop_units ] ])

\* #[derive(Deserialize)]: the inverse reading, PathBuf::from for the paths.
Config_deserialize(tree) ==
    [ common |->
        [ base_directory |-> tree.common.base_directory,
          directories |-> tree.common.directories ],
      configurator |->
        [ install_directory |-> tree.configurator.install_directory,
          logfile |-> tree.configurator.logfile,
          service_directory |-> tree.configurator.service_directory,
          systemd_directory |-> tree.configurator.systemd_directory ],
      disk |->
        [ disk_image_path |-> tree.disk.disk_image_path,
          disk_image_size |-> tree.disk.disk_image_size,
          mount_directory |-> tree.disk.mount_directory,
          mount_options |-> tree.disk.mount_options ],
      overlay |-> [ overlay_directory |-> tree.overlay.overlay_directory ],
      service |->
        [ mask_units |-> tree.service.mask_units,
          restart_units |-> tree.service.restart_units,
          stop_units |-> tree.service.stop_units ] ]

ArgumentError(msg) == [kind |-> "ArgumentError", msg |-> msg]

\* The crate::Error variant a backend's encode / decode error converts into.
SerError(format, msg) ==
    [ kind |-> CASE format = "Json" -> "JsonError"
                 [] format = "Ron" -> "RonError"
                 [] format = "Toml" -> "TomlSerError"
                 [] format = "Yaml" -> "YamlError",
      msg |-> msg ]

DeError(format) ==
    [ kind |-> CASE format = "Json" -> "JsonError"
                 [] format = "Ron" -> "RonSpannedError"
                 [] format = "Toml" -> "TomlDeError"
                 [] format = "Yaml" -> "YamlError",
      msg |-> "parse error" ]

\* to_string_pretty whose Toml arm is missing, so that Toml falls to `_`.
to_string_pretty_no_toml(self, format) ==
    IF format \in Backends \ {"Toml"}
    THEN LET r == Config_serialize(self)
         IN  IF r.ok THEN Ok(<<Doc(format, r.val)>>)
             ELSE Err(SerError(format, r.err))
    ELSE Ok(<<>>)

\* Config::to_string_pretty: the text as a sequence of chunks.
to_string_pretty(self, format) ==
    IF format \in Backends
    THEN LET r == Config_serialize(self)
         IN  IF r.ok THEN Ok(<<Doc(format, r.val)>>)
             ELSE Err(SerError(format, r.err))
    ELSE Ok(<<>>)

\* File::create: creates the file or truncates an existing one.
File_create(files, path) ==
    IF files[path].kind = "denied" THEN Err(IoError("PermissionDenied"))
    ELSE Ok([files EXCEPT ![path] = File(<<>>)])

\* Config::save: what it returns and the file system it leaves.
save(self, files, path, format) ==
    LET file == File_create(files, path)
    IN  IF ~file.ok THEN [ret |-> Err(file.err), files |-> files]
        ELSE LET text == to_string_pretty(self, format)
             IN  IF ~text.ok THEN [ret |-> Err(text.err), files |-> file.val]
                 ELSE [ ret |-> Ok("()"),
                        files |-> [file.val EXCEPT
                                     ![path] = File(text.val \o <<NL>>)] ]

\* fs::read_to_string
read_to_string(files, path) ==
    CASE files[path].kind = "file" -> Ok(files[path].content)
      [] files[path].kind = "absent" -> Err(IoError("NotFound"))
      [] files[path].kind = "denied" -> Err(IoError("PermissionDenied"))

IsText(chunk) == chunk.chunk # "newline"

\* What a backend's parser accepts: its own documents (YAML reads JSON too).
Reads(format, written) ==
    IF format = "Yaml" THEN written \in {"Yaml", "Json"} ELSE written = format

\* serde_json::from_str, ron::from_str, toml::from_str, serde_yaml::from_str:
\* surrounding whitespace is skipped, the rest must be one document.
from_str(content, format) ==
    LET text == SelectSeq(content, IsText)
    IN  IF Len(text) = 1
        THEN IF text[1].chunk = "doc"
             THEN IF Reads(format, text[1].format)
                  THEN Ok(Config_deserialize(text[1].tree))
                  ELSE Err(DeError(format))
             ELSE Err(DeError(format))
        ELSE Err(DeError(format))

\* Config::load
load(files, path, format) ==
    LET file == read_to_string(files, path)
    IN  IF ~file.ok THEN Err(file.err)
        ELSE IF format \in Backends THEN from_str(file.val, format)
        ELSE Err(ArgumentError(""))

----------------------------------------------------------------------------
(* Two builder chains making the same calls in opposite orders             *)

\* Pairs of calls each chain makes per behaviour.
MaxPairs == 1

Flags == {"force", "mixed", "no_discard", "shrink"}

OrderInputs ==
    [ byte_count       |-> {0, 536870912},
      checksum         |-> {"CRC32C", "XXHash"},
      data             |-> {"Dup", "Single"},
      features         |-> {<<"mixed-bg">>},
      label            |-> {"", "label-label"},
      metadata         |-> {"Dup", "Raid1"},
      nodesize         |-> {3, 4096},
      rootdir          |-> {"./testdir"},
      runtime_features |-> {<<"quota">>},
      sectorsize       |-> {4096},
      uuid             |-> {"73e1b7e2-a3a8-49c2-b258-06f01a889bba"} ]

ArgsOf(in, op) == IF op \in Flags THEN {"-"} ELSE in[op]

\* The setter `op` called with `arg` on the builder `self`.
Apply(op, arg, self) ==
    CASE op = "byte_count" -> byte_count(self, arg)
      [] op = "checksum" -> checksum(self, arg)
      [] op = "data" -> data(self, arg)
      [] op = "features" -> features(self, arg)
      [] op = "force" -> force(self)
      [] op = "label" -> label(self, arg)
      [] op = "metadata" -> metadata(self, arg)
      [] op = "mixed" -> mixed(self)
      [] op = "no_discard" -> no_discard(self)
      [] op = "nodesize" -> nodesize(self, arg)
      [] op = "rootdir" -> rootdir(self, arg)
      [] op = "runtime_features" -> runtime_features(self, arg)
      [] op = "sectorsize" -> sectorsize(self, arg)
      [] op = "shrink" -> shrink(self)
      [] op = "uuid" -> uuid(self, arg)

\* One more call on a chain: a chain that hit an Err has no builder left.
Chained(chain, op, arg) ==
    IF ~chain.live THEN Moved
    ELSE LET r == Apply(op, arg, chain.o)
         IN  IF r.ok THEN Owned(r.val) ELSE Moved

NoPending == [some |-> FALSE]

\* Chain 1 calls A while chain 2 calls B (A and B setters of distinct slots).
Order_first ==
    /\ ~pending.some
    /\ opts.live
    /\ opts2.live
    /\ Cardinality(Present(opts.o)) < 2 * MaxPairs
    /\ \E opA \in SlotNames :
         \E opB \in SlotNames \ {opA} :
           \E argA \in ArgsOf(OrderInputs, opA), argB \in ArgsOf(OrderInputs, opB) :
             /\ opts' = Chained(opts, opA, argA)
             /\ opts2' = Chained(opts2, opB, argB)
             /\ pending' = [some |-> TRUE, opA |-> opA, argA |-> argA,
                            opB |-> opB, argB |-> argB]
    /\ UNCHANGED <<last, formatter, spawned, exited, output, cfgVars, fs>>

\* Chain 1 then calls B, chain 2 calls A.
Order_second ==
    /\ pending.some
    /\ opts' = Chained(opts, pending.opB, pending.argB)
    /\ opts2' = Chained(opts2, pending.opA, pending.argA)
    /\ pending' = NoPending
    /\ UNCHANGED <<last, formatter, spawned, exited, output, cfgVars, fs>>

----------------------------------------------------------------------------
(* The Config API, one action per call                                     *)

\* Setter calls on one Config value.
MaxEdits == 1
\* The paths written so far.
Written == {p \in DOMAIN fs : fs[p] # InitFs[p]}

BasePaths == {"/opt/rover", "/opt/rover/", "", "/", "<FF>/rover"}

Io(op, path, format, res) == [op |-> op, path |-> path, format |-> format, res |-> res]

\* Config::from(base), on a fresh value.
Call_Config_from ==
    /\ io.op = "default"
    /\ \E b \in BasePaths :
         /\ config' = Config_from(b)
         /\ io' = Io("from", b, "-", Ok("()"))
    /\ UNCHANGED <<fmtVars, ordVars, edits, fs>>

\* `config.field = config.field.setter(value)` for a sub-record setter.
Edit(c) ==
    /\ edits < MaxEdits
    /\ config' = c
    /\ edits' = edits + 1
    /\ io' = Io("set", "-", "-", Ok("()"))
    /\ UNCHANGED <<fmtVars, ordVars, fs>>

Call_Common_base_directory ==
    \E p \in {"/srv/rover"} :
      Edit([config EXCEPT !.common = Common_base_directory(@, p)])

Call_Common_directories ==
    \E d \in {<<"/usr", "<FF>/rover">>} :
      Edit([config EXCEPT !.common = Common_directories(@, d)])

Call_Service_mask_units ==
    \E u \in {<<>>} :
      Edit([config EXCEPT !.service = Service_mask_units(@, u)])

Call_Service_restart_units ==
    \E u \in {<<"polkit.service">>} :
      Edit([config EXCEPT !.service = Service_restart_units(@, u)])

Call_Service_stop_units ==
    \E u \in {<<"true">>} :
      Edit([config EXCEPT !.service = Service_stop_units(@, u)])

Call_Overlay_overlay_directory ==
    \E p \in {"/opt/rwfus/mount"} :
      Edit([config EXCEPT !.overlay = Overlay_overlay_directory(@, p)])

Call_Disk_disk_image_path ==
    \E p \in {"/srv/rover/disk.img"} :
      Edit([config EXCEPT !.disk = Disk_disk_image_path(@, p)])

Call_Disk_disk_image_size ==
    \E z \in {"16G"} :
      Edit([config EXCEPT !.disk = Disk_disk_image_size(@, z)])

Call_Disk_mount_directory ==
    \E p \in {"/mnt"} :
      Edit([config EXCEPT !.disk = Disk_mount_directory(@, p)])

Call_Disk_mount_options ==
    \E o \in {<<"loop">>} :
      Edit([config EXCEPT !.disk = Disk_mount_options(@, o)])

Call_Configurator_install_directory ==
    \E p \in {"/usr/local/bin"} :
      Edit([config EXCEPT !.configurator = Configurator_install_directory(@, p)])

Call_Configurator_logfile ==
    \E p \in {"/tmp/rover.log"} :
      Edit([config EXCEPT !.configurator = Configurator_logfile(@, p)])

Call_Configurator_service_directory ==
    \E p \in {"/srv/rover/service"} :
      Edit([config EXCEPT !.configurator = Configurator_service_directory(@, p)])

Call_Configurator_systemd_directory ==
    \E p \in {"/run/systemd/system"} :
      Edit([config EXCEPT !.configurator = Configurator_systemd_directory(@, p)])

Call_to_string_pretty ==
    /\ \E f \in ConfigFormat :
         io' = Io("to_string_pretty", "-", f, to_string_pretty(config, f))
    /\ UNCHANGED <<fmtVars, ordVars, config, edits, fs>>

\* A behaviour keeps to one configuration file: what it saved, it saves again.
Call_save ==
    /\ \E p \in ConfigPaths, f \in ConfigFormat :
         LET r == save(config, fs, p, f)
         IN  /\ Written \subseteq {p}
             /\ fs' = r.files
             /\ io' = Io("save", p, f, r.ret)
    /\ UNCHANGED <<fmtVars, ordVars, config, edits>>

Call_load ==
    /\ \E p \in ConfigPaths, f \in ConfigFormat :
         io' = Io("load", p, f, load(fs, p, f))
    /\ UNCHANGED <<fmtVars, ordVars, config, edits, fs>>

----------------------------------------------------------------------------
(* Specifications                                                          *)

Init ==
    /\ opts = Owned(Formatter_options)
    /\ last = [op |-> "options", arg |-> "-", ok |-> TRUE, err |-> NoError]
    /\ formatter = NoFormatter
    /\ spawned = <<>>
    /\ exited = <<>>
    /\ output = NoOutput
    /\ opts2 = Owned(Formatter_options)
    /\ pending = NoPending
    /\ config = Config_default
    /\ edits = 0
    /\ fs = InitFs
    /\ io = Io("default", "-", "-", Ok("()"))

\* The formatter API under any caller.
Next ==
    \/ Call_byte_count(ApiInputs)
    \/ Call_checksum(ApiInputs)
    \/ Call_data(ApiInputs)
    \/ Call_features(ApiInputs)
    \/ Call_force(ApiInputs)
    \/ Call_label(ApiInputs)
    \/ Call_metadata(ApiInputs)
    \/ Call_mixed(ApiInputs)
    \/ Call_no_discard(ApiInputs)
    \/ Call_nodesize(ApiInputs)
    \/ Call_rootdir(ApiInputs)
    \/ Call_runtime_features(ApiInputs)
    \/ Call_sectorsize(ApiInputs)
    \/ Call_shrink(ApiInputs)
    \/ Call_uuid(ApiInputs)
    \/ Call_dump_args
    \/ Call_finalize
    \/ Chain_finalize
    \/ Call_format(ApiInputs)

Spec == Init /\ [][Next]_vars

\* The builder chains of the repository's callers: the documented example
\* values, the setters in any order and any number, then finalize and format.
NextExample ==
    \/ Call_byte_count(ExampleInputs)
    \/ Call_checksum(ExampleInputs)
    \/ Call_data(ExampleInputs)
    \/ Call_features(ExampleInputs)
    \/ Call_force(ExampleInputs)
    \/ Call_label(ExampleInputs)
    \/ Call_metadata(ExampleInputs)
    \/ Call_mixed(ExampleInputs)
    \/ Call_no_discard(ExampleInputs)
    \/ Call_nodesize(ExampleInputs)
    \/ Call_rootdir(ExampleInputs)
    \/ Call_runtime_features(ExampleInputs)
    \/ Call_sectorsize(ExampleInputs)
    \/ Call_shrink(ExampleInputs)
    \/ Call_uuid(ExampleInputs)
    \/ Call_dump_args
    \/ Chain_finalize
    \/ Call_format(ExampleInputs)

SpecExample == Init /\ [][NextExample]_vars

\* The builder alone, over the full range of arguments.
NextBuilder ==
    \/ Call_byte_count(FullInputs)
    \/ Call_checksum(FullInputs)
    \/ Call_data(FullInputs)
    \/ Call_features(FullInputs)
    \/ Call_force(FullInputs)
    \/ Call_label(FullInputs)
    \/ Call_metadata(FullInputs)
    \/ Call_mixed(FullInputs)
    \/ Call_no_discard(FullInputs)
    \/ Call_nodesize(FullInputs)
    \/ Call_rootdir(FullInputs)
    \/ Call_runtime_features(FullInputs)
    \/ Call_sectorsize(FullInputs)
    \/ Call_shrink(FullInputs)
    \/ Call_uuid(FullInputs)
    \/ Call_dump_args

SpecBuilder == Init /\ [][NextBuilder]_vars

\* One build chain, as create_btrfs_image writes it: setters chained with
\* `?`, then finalize and format in the same expression.
NextChain ==
    \/ Call_rootdir(ChainInputs)
    \/ Call_label(ChainInputs)
    \/ Call_shrink(ChainInputs)
    \/ Call_mixed(ChainInputs)
    \/ Call_force(ChainInputs)
    \/ Call_nodesize(ChainInputs)
    \/ Chain_finalize
    \/ Call_format(ChainInputs)

SpecChain == Init /\ [][NextChain]_vars

\* A builder the caller keeps in a variable and compiles as often as it
\* likes: setters, dump_args and finalize, no process.
NextCompile ==
    \/ Call_rootdir(ChainInputs)
    \/ Call_label(ChainInputs)
    \/ Call_shrink(ChainInputs)
    \/ Call_mixed(ChainInputs)
    \/ Call_force(ChainInputs)
    \/ Call_nodesize(ChainInputs)
    \/ Call_dump_args
    \/ Call_finalize

SpecCompile == Init /\ [][NextCompile]_vars

NextOrder == Order_first \/ Order_second

SpecOrder == Init /\ [][NextOrder]_vars

NextConfig ==
    \/ Call_Config_from
    \/ Call_Common_base_directory
    \/ Call_Common_directories
    \/ Call_Service_mask_units
    \/ Call_Service_restart_units
    \/ Call_Service_stop_units
    \/ Call_Overlay_overlay_directory
    \/ Call_Disk_disk_image_path
    \/ Call_Disk_disk_image_size
    \/ Call_Disk_mount_directory
    \/ Call_Disk_mount_options
    \/ Call_Configurator_install_directory
    \/ Call_Configurator_logfile
    \/ Call_Configurator_service_directory
    \/ Call_Configurator_systemd_directory
    \/ Call_to_string_pretty
    \/ Call_save
    \/ Call_load

SpecConfig == Init /\ [][NextConfig]_vars

----------------------------------------------------------------------------
(* Properties of the option builder                                        *)

C2_LabelLengthChecked ==
    last.op = "label" =>
        /\ Len(last.arg) > 255 => ~last.ok
        /\ Len(last.arg) \in 1..255 =>
              /\ last.ok
              /\ opts.live
              /\ opts.o.label.tag = "Text"
              /\ opts.o.label.arg = last.arg

\* C3: label("") fails with an argument-validation error, no builder holds an
\* empty label, and no compiled sequence contains the token "--label=".
C3_NoEmptyLabel ==
    /\ (last.op = "label" /\ last.arg = "") =>
          (~last.ok /\ last.err.kind = "AssignmentError")
    /\ opts.live =>
          /\ opts.o.label.tag = "Text" => opts.o.label.arg # ""
          /\ \A i \in DOMAIN to_args(opts.o) : to_args(opts.o)[i] # "--label="

----------------------------------------------------------------------------
(* Properties of the argument compiler                                     *)

\* The option names of the specification, in its fixed order (the order of
\* Slots, slot by slot).
OptionNames ==
    <<"byte-count", "checksum", "data", "features", "force", "label",
      "metadata", "mixed", "nodiscard", "nodesize", "rootdir",
      "runtime-features", "sectorsize", "shrink", "uuid">>

\* Where the first "=" of a token is (0 if it has none).
EqualsAt(token) ==
    LET at == {i \in 1..Len(token) : SubSeq(token, i, i) = "="}
    IN  IF at = {} THEN 0 ELSE CHOOSE i \in at : \A j \in at : i <= j

\* The option a token names: what stands between "--" and "=" (or the end).
TokenName(token) ==
    IF EqualsAt(token) = 0 THEN SubSeq(token, 3, Len(token))
    ELSE SubSeq(token, 3, EqualsAt(token) - 1)

\* The place of an option name in the fixed order (0 if it is none).
PlaceOf(name) ==
    LET at == {i \in 1..Len(OptionNames) : OptionNames[i] = name}
    IN  IF at = {} THEN 0 ELSE CHOOSE i \in at : TRUE

\* C4: a compiled sequence holds exactly one token for each present slot,
\* none for an absent slot, and its tokens follow the fixed option order.
C4_OneTokenPerPresentSlotInOrder ==
    last.op = "dump_args" =>
        LET args == last.arg
            place == [j \in DOMAIN args |-> PlaceOf(TokenName(args[j]))]
        IN  /\ opts.live
            /\ \A j \in DOMAIN args :
                  /\ SubSeq(args[j], 1, 2) = "--"
                  /\ place[j] \in 1..Len(Slots)
            /\ \A i \in 1..Len(Slots) :
                  Cardinality({j \in DOMAIN args : place[j] = i})
                     = IF opts.o[Slots[i]].tag = "None" THEN 0 ELSE 1
            /\ \A j \in DOMAIN args, k \in DOMAIN args :
                  j < k => place[j] < place[k]

\* A builder with every slot but mixed present was compiled.
C4_Witness ==
    /\ last.op = "dump_args"
    /\ opts.live
    /\ Present(opts.o) = SlotNames \ {"mixed"}
    /\ Len(last.arg) = 14

\* C5: two chains that make the same two successful setter calls on distinct
\* slots in opposite orders compile to the same argument sequence (and a
\* chain that meets a failing call ends, whichever order it is met in).
C5_OrderIndependent ==
    ~pending.some =>
        /\ opts.live = opts2.live
        /\ opts.live => to_args(opts.o) = to_args(opts2.o)

\* Both chains made two calls and compile to two tokens.
C5_Witness ==
    /\ ~pending.some
    /\ opts.live
    /\ opts2.live
    /\ Len(to_args(opts.o)) = 2
    /\ Len(to_args(opts2.o)) = 2

\* The tokens of the specification's example, slot by slot.
ExampleTokens ==
    [ byte_count       |-> "--byte-count=536870912",
      checksum         |-> "--checksum=crc32c",
      data             |-> "--data=dup",
      features         |-> "--features=mixed-bg",
      force            |-> "--force",
      label            |-> "--label=label-label",
      metadata         |-> "--metadata=dup",
      mixed            |-> "--mixed",
      no_discard       |-> "--nodiscard",
      nodesize         |-> "--nodesize=4096",
      rootdir          |-> "--rootdir=./testdir",
      runtime_features |-> "--runtime-features=quota",
      sectorsize       |-> "--sectorsize=4096",
      shrink           |-> "--shrink",
      uuid             |-> "--uuid=73e1b7e2-a3a8-49c2-b258-06f01a889bba" ]

RECURSIVE ExampleFrom(_, _)
\* The example's tokens for the present slots of o, from slot i on.
ExampleFrom(o, i) ==
    IF i > Len(Slots) THEN <<>>
    ELSE (IF o[Slots[i]].tag = "None" THEN <<>> ELSE <<ExampleTokens[Slots[i]]>>)
            \o ExampleFrom(o, i + 1)

Lower(c) ==
    CASE c = "A" -> "a" [] c = "B" -> "b" [] c = "C" -> "c" [] c = "D" -> "d"
      [] c = "H" -> "h" [] c = "R" -> "r" [] c = "S" -> "s" [] c = "X" -> "x"
      [] OTHER -> c

RECURSIVE Lowercase(_)
Lowercase(s) ==
    IF s = "" THEN "" ELSE Lower(SubSeq(s, 1, 1)) \o Lowercase(SubSeq(s, 2, Len(s)))

\* The canonical text of a value on its own: an enum is its name in lower
\* case, a list is comma-joined, a number is decimal, a flag has no value.
CanonicalText ==
    /\ \A p \in DataProfile :
          /\ to_args(data(Formatter_options, p).val) = <<"--data=" \o Lowercase(p)>>
          /\ to_args(metadata(Formatter_options, p).val)
                = <<"--metadata=" \o Lowercase(p)>>
    /\ \A a \in ChecksumAlgorithm :
          to_args(checksum(Formatter_options, a).val)
             = <<"--checksum=" \o Lowercase(a)>>
    /\ to_args(features(Formatter_options, <<"mixed-bg", "^extref", "raid56">>).val)
          = <<"--features=mixed-bg,^extref,raid56">>
    /\ to_args(runtime_features(Formatter_options, <<"quota", "free-space-tree">>).val)
          = <<"--runtime-features=quota,free-space-tree">>
    /\ to_args(byte_count(Formatter_options, 2147483647).val)
          = <<"--byte-count=2147483647">>
    /\ to_args(sectorsize(Formatter_options, 0).val) = <<"--sectorsize=0">>
    /\ to_args(nodesize(Formatter_options, 16384).val) = <<"--nodesize=16384">>
    /\ to_args(rootdir(Formatter_options, "/").val) = <<"--rootdir=/">>

\* C6: a present flag compiles to its bare token and every other present slot
\* to "--name=value" with the value's canonical text; a builder filled with
\* the example's values compiles to the example's tokens of its present
\* slots, in order (all fifteen when fully populated).
C6_TokenFormat ==
    /\ CanonicalText
    /\ last.op = "dump_args" => last.arg = ExampleFrom(opts.o, 1)
    /\ formatter.live =>
          \A j \in DOMAIN formatter.f.args :
             \E i \in 1..Len(Slots) :
                /\ formatter.f.args[j] = ExampleTokens[Slots[i]]
                /\ Slots[i] \in Flags <=> EqualsAt(formatter.f.args[j]) = 0

\* The fully populated example was compiled to its fifteen tokens.
C6_Witness ==
    /\ last.op = "dump_args"
    /\ Present(opts.o) = SlotNames
    /\ Len(last.arg) = 15
    /\ last.arg[5] = "--force"
    /\ last.arg[15] = "--uuid=73e1b7e2-a3a8-49c2-b258-06f01a889bba"

----------------------------------------------------------------------------
(* Properties of the process invoker                                       *)

\* C7: format(device) on a device path that does not exist fails with an I/O
\* error, and no mkfs.btrfs process is started for such a path.
C7_MissingDeviceFails ==
    /\ (last.op = "format" /\ fs[last.arg].kind = "absent") =>
          (~last.ok /\ last.err.kind = "IoError")
    /\ \A i \in DOMAIN spawned :
          fs[spawned[i][Len(spawned[i])]].kind # "absent"

----------------------------------------------------------------------------
(* Properties of the configuration codec                                   *)

C9_UnsupportedFormatFails ==
    (io.op \in {"save", "to_string_pretty", "load"} /\ io.format = "Dummy") =>
        /\ ~io.res.ok
        /\ io.res.err.kind = "ArgumentError"
        /\ fs = InitFs

----------------------------------------------------------------------------
(* Properties of the configuration model                                   *)

RECURSIVE PartsFrom(_, _, _)
\* The components of path p from character i on, `part` being the component
\* read so far: the pieces between separators, empty pieces dropped.
PartsFrom(p, i, part) ==
    IF i > Len(p) THEN (IF part = "" THEN <<>> ELSE <<part>>)
    ELSE IF SubSeq(p, i, i) = "/"
         THEN (IF part = "" THEN <<>> ELSE <<part>>) \o PartsFrom(p, i + 1, "")
         ELSE PartsFrom(p, i + 1, part \o SubSeq(p, i, i))

\* base/"name": the same root, the same components, and then `name`.
IsChildOf(p, base, name) ==
    /\ (Len(p) >= 1 /\ SubSeq(p, 1, 1) = "/") <=> (Len(base) >= 1 /\ SubSeq(base, 1, 1) = "/")
    /\ PartsFrom(p, 1, "") = PartsFrom(base, 1, "") \o <<name>>

\* C10: Config::from(b) has base_directory b, overlay_directory b/"mount",
\* disk_image_path b/"rwfus.btrfs", mount_directory b/"mount", and the
\* Service unit lists of the defaults, whatever b is.
C10_DerivedFromBase ==
    io.op = "from" =>
        /\ config.common.base_directory = io.path
        /\ IsChildOf(config.overlay.overlay_directory, io.path, "mount")
        /\ IsChildOf(config.disk.disk_image_path, io.path, "rwfus.btrfs")
        /\ IsChildOf(config.disk.mount_directory, io.path, "mount")
        /\ config.service.mask_units = <<"pacman-cleanup.service">>
        /\ config.service.restart_units = <<"usr-local.mount", "polkit.service">>
        /\ config.service.stop_units = <<"var-cache-pacman.mount">>
        /\ io.path = "/opt/rover" =>
              /\ config.overlay.overlay_directory = "/opt/rover/mount"
              /\ config.disk.disk_image_path = "/opt/rover/rwfus.btrfs"

\* Config::from("/opt/rover") was called.
C10_Witness ==
    /\ io.op = "from"
    /\ io.path = "/opt/rover"
    /\ config.disk.mount_directory = "/opt/rover/mount"

\* The path fields of a Config.
PathFieldsOf(c) ==
    {c.common.base_directory, c.overlay.overlay_directory,
     c.disk.disk_image_path, c.disk.mount_directory,
     c.configurator.install_directory, c.configurator.logfile,
     c.configurator.service_directory, c.configurator.systemd_directory}
        \cup {c.common.directories[i] : i \in DOMAIN c.common.directories}

\* C11: Config::default() gives every sub-record its documented default:
\* overlay_directory "/opt/rwfus/mount", base_directory "/opt/rwfus",
\* disk_image_path "/opt/rwfus/rwfus.btrfs", mount_directory
\* "/opt/rwfus/mount", disk_image_size "8G", mount_options ["loop",
\* "compress"]; and no path field of a default Config is empty.
C11_DocumentedDefaults ==
    io.op = "default" =>
        /\ config.overlay.overlay_directory = "/opt/rwfus/mount"
        /\ config.common.base_directory = "/opt/rwfus"
        /\ config.disk.disk_image_path = "/opt/rwfus/rwfus.btrfs"
        /\ config.disk.mount_directory = "/opt/rwfus/mount"
        /\ config.disk.disk_image_size = "8G"
        /\ config.disk.mount_options = <<"loop", "compress">>
        /\ "" \notin PathFieldsOf(config)

----------------------------------------------------------------------------
(* More properties of the process invoker                                  *)

\* C12: a call of format starts mkfs.btrfs at most once, and whenever the
\* device exists and the process was run, format returns Ok with what the
\* process left (its exit status, zero or not, its stdout and its stderr),
\* unchanged.
C12_ExitStatusIsData ==
    [][ (formatter.live /\ ~formatter'.live) =>
           /\ Len(spawned') <= Len(spawned) + 1
           /\ (Len(spawned') = Len(spawned) + 1 /\ fs[last'.arg].kind = "file") =>
                 /\ last'.op = "format"
                 /\ last'.ok
                 /\ output' = Ok(exited'[Len(exited')])
      ]_vars

\* format ran mkfs.btrfs on an existing device and the process exited with
\* status 1.
C12_Witness ==
    /\ last.op = "format"
    /\ fs[last.arg].kind = "file"
    /\ Len(spawned) = 1
    /\ exited[1].status = 1
    /\ output.ok
    /\ output.val.status = 1

----------------------------------------------------------------------------
(* Properties of a chain over time                                         *)

\* The bare token of each flag.
FlagToken ==
    [force |-> "--force", mixed |-> "--mixed", no_discard |-> "--nodiscard",
     shrink |-> "--shrink"]

\* Flag f is true in builder o.
IsSet(o, f) == o[f].tag = "Bool" /\ o[f].arg

\* C14: force(), mixed(), no_discard() and shrink() always succeed and set
\* their flag true; a flag that is true in a builder stays true after every
\* further setter call the chain survives, and its bare token is in every
\* later compilation.
C14_FlagsStayTrue ==
    [][ /\ last'.op \in Flags =>
              /\ last'.ok
              /\ opts'.live
              /\ IsSet(opts'.o, last'.op)
        /\ \A f \in Flags :
              (opts.live /\ IsSet(opts.o, f) /\ opts'.live) =>
                 /\ IsSet(opts'.o, f)
                 /\ \E j \in DOMAIN to_args(opts'.o) : to_args(opts'.o)[j] = FlagToken[f]
                 /\ last'.op = "dump_args" =>
                       \E j \in DOMAIN last'.arg : last'.arg[j] = FlagToken[f]
      ]_vars

\* shrink was set, another slot was set after it, and the builder was
\* compiled with the flag's token in it.
C14_Witness ==
    /\ last.op = "dump_args"
    /\ opts.live
    /\ IsSet(opts.o, "shrink")
    /\ opts.o.label.tag = "Text"
    /\ last.arg = <<"--label=label-label", "--shrink">>

\* C15: the pipeline is single-use: finalize consumes the builder, so that no
\* setter and no second finalize can follow it on the same builder, and
\* format consumes the Formatter, so that it runs at most once.
C15_SingleUse ==
    /\ last.op = "finalize" => ~opts.live
    /\ last.op = "format" => ~formatter.live
    /\ (opts.live /\ last.op \in SlotNames) => (~formatter.live /\ spawned = <<>>)

\* A setter call that violates the constraint of its option: a node size that
\* is no power of two or exceeds 16384, a label that is empty or longer than
\* 255 bytes.
Violates(call) ==
    \/ call.op = "nodesize" /\ ~(\E k \in 0..14 : call.arg = 2^k)
    \/ call.op = "label" /\ Len(call.arg) \notin 1..255

\* C16: a setter call that violates its constraint returns the error at that
\* call and leaves the chain with no builder and no Formatter; nothing
\* follows it, and mkfs.btrfs is started only by a chain all of whose setter
\* calls succeeded.
C16_ErrorHaltsChain ==
    [][ /\ ~Violates(last)
        /\ Violates(last') =>
              /\ ~last'.ok
              /\ last'.err.kind = "AssignmentError"
              /\ ~opts'.live
              /\ ~formatter'.live
              /\ spawned' = <<>>
        /\ spawned' # spawned => (last.op = "finalize" /\ last.ok)
      ]_vars

----------------------------------------------------------------------------
(* More properties of the configuration model and its codec                *)

\* Path p lies under the directory `base`: the same root, and the components
\* of base and then more.
IsUnder(p, base) ==
    LET pp == PartsFrom(p, 1, "")
        bp == PartsFrom(base, 1, "")
    IN  /\ (Len(p) >= 1 /\ SubSeq(p, 1, 1) = "/")
              <=> (Len(base) >= 1 /\ SubSeq(base, 1, 1) = "/")
        /\ Len(pp) > Len(bp)
        /\ SubSeq(pp, 1, Len(bp)) = bp

\* C17: Config::from(b) has service_directory b/"service" and an
\* install_directory under b that is not the disk image path b/"rwfus.btrfs",
\* while systemd_directory and logfile keep their defaults.
C17_ConfiguratorRebased ==
    io.op = "from" =>
        /\ IsChildOf(config.configurator.service_directory, io.path, "service")
        /\ IsUnder(config.configurator.install_directory, io.path)
        /\ config.configurator.install_directory # config.disk.disk_image_path
        /\ ~IsChildOf(config.configurator.install_directory, io.path, "rwfus.btrfs")
        /\ config.configurator.systemd_directory = "/etc/systemd/system"
        /\ config.configurator.logfile = "/var/log/rwfus.log"

\* C18: save is all-or-nothing: a save that fails leaves the file at its path
\* exactly as it was (not created, not truncated), and a save that succeeds
\* leaves there the pretty serialization of the Config and one newline.
C18_SaveAllOrNothing ==
    [][ io'.op = "save" =>
           IF io'.res.ok
           THEN LET text == to_string_pretty(config, io'.format)
                IN  /\ text.ok
                    /\ fs'[io'.path] = File(text.val \o <<NL>>)
           ELSE fs'[io'.path] = fs[io'.path]
      ]_vars

----------------------------------------------------------------------------
(* Determinism of the argument compiler                                    *)

----------------------------------------------------------------------------
(* Repeated setter calls                                                   *)

\* The tokens of a compiled sequence that name the option of slot s.
TokensOf(args, s) ==
    LET name == OptionNames[CHOOSE i \in 1..Len(Slots) : Slots[i] = s]
        head == "--" \o name \o "="
        bare == "--" \o name
        seq  == args
    IN  {j \in DOMAIN seq :
            \/ seq[j] = bare
            \/ /\ Len(seq[j]) >= Len(head)
               /\ SubSeq(seq[j], 1, Len(head)) = head}

\* C20: a successful call of a value setter on a builder whose slot already
\* holds a value replaces it: the slot then holds the value of this call, and
\* the compiled sequence has exactly one token for that option.
C20_LastWriteWins ==
    [][ \A s \in SlotNames \ Flags :
           (opts.live /\ opts.o[s].tag # "None" /\ last'.op = s /\ last'.ok) =>
              /\ opts'.live
              /\ opts'.o[s].tag = opts.o[s].tag
              /\ opts'.o[s].arg = last'.arg
              /\ Cardinality(TokensOf(to_args(opts'.o), s)) = 1
      ]_vars

\* byte_count holds 0, the value of the most recent call, beside another
\* slot, and compiles to its one token.
C20_Witness ==
    /\ last.op = "byte_count"
    /\ last.arg = 0
    /\ opts.live
    /\ opts.o.byte_count = Uint(0)
    /\ Cardinality(Present(opts.o)) = 2
    /\ Cardinality(TokensOf(to_args(opts.o), "byte_count")) = 1

----------------------------------------------------------------------------
(* What a setter leaves alone                                              *)

\* The variant each slot is meant to hold.
SlotVariant ==
    [ byte_count |-> "Uint", checksum |-> "Algo", data |-> "Data",
      features |-> "List", force |-> "Bool", label |-> "Text",
      metadata |-> "Data", mixed |-> "Bool", no_discard |-> "Bool",
      nodesize |-> "Uint", rootdir |-> "Path", runtime_features |-> "List",
      sectorsize |-> "Uint", shrink |-> "Bool", uuid |-> "Uuid" ]

\* C21: a successful setter changes only its own slot and leaves the other
\* fourteen as they were (an absent slot stays absent until its own setter is
\* called); dump_args changes no slot; and every slot holds either nothing or
\* the variant of its own type, the node size being a power of two <= 16384.
C21_SetterFrame ==
    [][ /\ (opts.live /\ opts'.live /\ last'.op \in SlotNames) =>
              /\ last'.ok
              /\ \A s \in SlotNames \ {last'.op} : opts'.o[s] = opts.o[s]
              /\ opts'.o[last'.op].tag = SlotVariant[last'.op]
        /\ (opts.live /\ last'.op = "dump_args") => opts' = opts
        /\ opts'.live =>
              /\ \A s \in SlotNames :
                    opts'.o[s].tag \in {"None", SlotVariant[s]}
              /\ opts'.o.nodesize.tag = "Uint" =>
                    \E k \in 0..14 : opts'.o.nodesize.arg = 2^k
      ]_vars

\* nodesize(4096) was called on a builder that held a label: the builder holds
\* both, and the thirteen other slots are still absent.
C21_Witness ==
    /\ last.op = "nodesize"
    /\ last.ok
    /\ opts.live
    /\ opts.o.label = Text("label-label")
    /\ opts.o.nodesize = Uint(4096)
    /\ Present(opts.o) = {"label", "nodesize"}

====
